---- MODULE Spec2Model ----
(***************************************************************************)
(* Model of the notebook "Major Assignment 3/M_Model_S_Analysis.ipynb":     *)
(* the MemeDataset adapter, the MultimodalModel forward pass (at the level  *)
(* of tensor shapes and of an uninterpreted deterministic scoring           *)
(* function), train_model, evaluate_model and the cells that drive them.    *)
(*                                                                          *)
(* Python positions are 0-based; TLA+ sequences are 1-based.  A Python      *)
(* list position p is element p + 1 of the modelling sequence.              *)
(***************************************************************************)
EXTENDS Integers, Sequences, FiniteSets, TLC

\* ------------------------------------------------------------------------
\* Bounds of the model
\* ------------------------------------------------------------------------

\* text_max_length of MemeDataset.__init__ (128 in the notebook), scaled down.
text_max_length == 4

\* Captions have 0 .. text_max_length + ExtraWords words.
ExtraWords == 1

\* Distinct words of the caption vocabulary.
NumWords == 2

None == "None"

Range(s) == {s[i] : i \in DOMAIN s}

Min(a, b) == IF a < b THEN a ELSE b

\* ------------------------------------------------------------------------
\* MemeDataset
\* ------------------------------------------------------------------------

\* The task names, in the order of the dicts of the notebook.
TaskOrder == <<"sentiment", "humor", "sarcasm", "offensive", "motivational">>

Tasks == Range(TaskOrder)

\* self.label_maps
label_maps ==
    [sentiment    |-> <<"very_negative", "negative", "neutral", "positive", "very_positive">>,
     humor        |-> <<"not_funny", "funny", "very_funny", "hilarious">>,
     sarcasm      |-> <<"not_sarcastic", "general", "twisted_meaning", "very_twisted">>,
     offensive    |-> <<"not_offensive", "slight", "very_offensive", "hateful_offensive">>,
     motivational |-> <<"not_motivational", "motivational">>]

\* The column of the table that __getitem__ reads for each task.
Column ==
    [sentiment    |-> "overall_sentiment",
     humor        |-> "humour",
     sarcasm      |-> "sarcasm",
     offensive    |-> "offensive",
     motivational |-> "motivational"]

\* Python's `v in list`.
Contains(list, v) == \E i \in DOMAIN list : list[i] = v

\* list.index(v) with the 1-based position returned as is: an off-by-one slip.
IndexOneBased(list, v) ==
    CHOOSE i \in DOMAIN list : list[i] = v /\ \A j \in 1..(i - 1) : list[j] # v

\* Python's list.index(v), for v in the list: the 0-based position of the first
\* occurrence.  (For v not in the list, list.index raises ValueError: see
\* EncodeLabel.)
Index(list, v) ==
    (CHOOSE i \in DOMAIN list : list[i] = v /\ \A j \in 1..(i - 1) : list[j] # v) - 1

\* One entry of the `labels` dict of __getitem__: the class index, or the
\* exception the expression raises.
EncodeLabel(task, row) ==
    IF task = "motivational"
    THEN [raised |-> None,
          value  |-> IF row[Column[task]] = "motivational" THEN 1 ELSE 0]
    ELSE IF Contains(label_maps[task], row[Column[task]])
         THEN [raised |-> None, value |-> Index(label_maps[task], row[Column[task]])]
         ELSE [raised |-> "ValueError", value |-> None]

\* The special token ids of the distilbert-base-uncased vocabulary.
SpecialTokens == [pad |-> 0, cls |-> 101, sep |-> 102]

\* Vocabulary lookup of one caption word (words are 1..NumWords).
WordId(w) == 1000 + w

\* truncation switched off: the sequence keeps every token.
TruncateNever(words, max_length) == words

\* truncation=True: tokens are removed from the end of the text until the
\* sequence, with its two special tokens, fits max_length.
Truncate(words, max_length) ==
    IF Len(words) + 2 > max_length
    THEN SubSeq(words, 1, max_length - 2)
    ELSE words

\* padding='max_length': pad on the right up to max_length.
Pad(seq, max_length, fill) ==
    seq \o [i \in 1..(max_length - Len(seq)) |-> fill]

\* self.tokenizer(text, max_length=..., padding='max_length', truncation=True,
\* return_tensors="pt"): tensors of shape [1, max_length].
Tokenizer(text, max_length) ==
    LET kept == Truncate(text, max_length)
        ids  == <<SpecialTokens.cls>> \o [i \in 1..Len(kept) |-> WordId(kept[i])]
                    \o <<SpecialTokens.sep>>
    IN  [input_ids      |-> <<Pad(ids, max_length, SpecialTokens.pad)>>,
         attention_mask |-> <<Pad([i \in 1..Len(ids) |-> 1], max_length, 0)>>]

\* Tensor.squeeze() of a [1, L] tensor given as a one-row matrix: every
\* dimension of size 1 is dropped, so L = 1 leaves a 0-d scalar.
Squeeze(t) ==
    IF Len(t) = 1
    THEN IF Len(t[1]) = 1 THEN t[1][1] ELSE t[1]
    ELSE t

\* Tensor.squeeze() on a shape.
SqueezeShape(shape) ==
    LET F[i \in 0..Len(shape)] ==
            IF i = 0 THEN <<>>
            ELSE IF shape[i] = 1 THEN F[i - 1] ELSE Append(F[i - 1], shape[i])
    IN  F[Len(shape)]

\* The ViT image processor: one RGB image, resized, as pixel_values of shape
\* [1, 3, 224, 224].  The pixel data are abstracted to the image's name.
ImageProcessor(image_name) ==
    [shape |-> <<1, 3, 224, 224>>, image |-> image_name]

\* The first exception the label dict raises (entries are evaluated in order).
FirstRaised(row) ==
    LET F[i \in 0..Len(TaskOrder)] ==
            IF i = 0 THEN None
            ELSE IF F[i - 1] # None THEN F[i - 1]
                 ELSE EncodeLabel(TaskOrder[i], row).raised
    IN  F[Len(TaskOrder)]

\* MemeDataset.__getitem__(idx) on a dataset whose labels_df is df (a
\* DataFrame: a sequence of [index, data] entries, idx positional as iloc).
GetItem(df, idx) ==
    LET row    == df[idx + 1].data
        inputs == Tokenizer(row.text_corrected, text_max_length)
        pixels == ImageProcessor(row.image_name)
    IN  IF FirstRaised(row) # None
        THEN [ok |-> FALSE, raised |-> FirstRaised(row)]
        ELSE [ok             |-> TRUE,
              input_ids      |-> Squeeze(inputs.input_ids),
              attention_mask |-> Squeeze(inputs.attention_mask),
              pixel_values   |-> [shape |-> SqueezeShape(pixels.shape),
                                  image |-> pixels.image],
              labels         |-> [t \in Tasks |-> EncodeLabel(t, row).value]]

\* MemeDataset.__len__
DatasetLen(df) == Len(df)

\* pd.read_csv: the rows of the file with the default RangeIndex 0..n-1.
ReadCsv(rows) == [i \in 1..Len(rows) |-> [index |-> i - 1, data |-> rows[i]]]

\* ------------------------------------------------------------------------
\* DataLoader
\* ------------------------------------------------------------------------

\* default_collate: the samples of a batch stacked along a new first axis.
Collate(samples) ==
    [input_ids      |-> [i \in 1..Len(samples) |-> samples[i].input_ids],
     attention_mask |-> [i \in 1..Len(samples) |-> samples[i].attention_mask],
     pixel_values   |-> [shape  |-> <<Len(samples)>> \o samples[1].pixel_values.shape,
                         images |-> [i \in 1..Len(samples) |-> samples[i].pixel_values.image]],
     labels         |-> [t \in Tasks |-> [i \in 1..Len(samples) |-> samples[i].labels[t]]]]

\* len(dataloader): the number of batches of one pass (drop_last=False).
LoaderLen(n, batch_size) == (n + batch_size - 1) \div batch_size

\* The sequences of k distinct elements of S: what a shuffling sampler can
\* deliver as the next k positions.
Orderings(S, k) ==
    {q \in [1..k -> S] : \A i, j \in 1..k : i # j => q[i] # q[j]}

\* ------------------------------------------------------------------------
\* MultimodalModel
\* ------------------------------------------------------------------------

\* Hidden width of both encoders (nn.Linear(768*2, 512)).
hidden_size == 768

\* Patch tokens plus the class token of ViT-base-patch16-224.
vit_tokens == 197

\* self.fusion[0] and self.classifier: in_features and out_features.
fusion == [in_features |-> hidden_size * 2, out_features |-> 512]

classifier ==
    [sentiment    |-> [in_features |-> 512, out_features |-> 5],
     humor        |-> [in_features |-> 512, out_features |-> 4],
     sarcasm      |-> [in_features |-> 512, out_features |-> 4],
     offensive    |-> [in_features |-> 512, out_features |-> 4],
     motivational |-> [in_features |-> 512, out_features |-> 2]]

\* The parameter groups of the module, in state_dict order.
ParamOrder == <<"text_model", "image_model", "fusion", "classifier">>

Params == Range(ParamOrder)

\* Weights are abstracted to one residue per parameter group.
WMod == 2

\* Scores are abstracted to residues.
ScoreMod == 5

\* Shape of an encoder's last_hidden_state for a batch.
TextModelShape(input_ids) == <<Len(input_ids), Len(input_ids[1]), hidden_size>>

ImageModelShape(pixel_shape) == <<pixel_shape[1], vit_tokens, hidden_size>>

\* x[:, 0, :] on a shape [N, T, H].
FirstToken(shape) == <<shape[1], shape[3]>>

\* torch.cat([a, b], dim=0) on 2-d shapes: rows are stacked.
CatRows(a, b) ==
    IF a[2] = b[2] THEN <<a[1] + b[1], a[2]>> ELSE <<>>

\* torch.cat([a, b], dim=1) on 2-d shapes.
Cat(a, b) ==
    IF a[1] = b[1] THEN <<a[1], a[2] + b[2]>> ELSE <<>>

\* nn.Linear on a 2-d shape: the last axis must be in_features.  The empty
\* shape <<>> stands for a shape error.
Linear(layer, shape) ==
    IF Len(shape) = 2 /\ shape[2] = layer.in_features
    THEN <<shape[1], layer.out_features>>
    ELSE <<>>

Sum(f, n) ==
    LET F[i \in 0..n] == IF i = 0 THEN 0 ELSE F[i - 1] + f[i]
    IN  F[n]

\* What the encoders see of sample i of a batch: its attended tokens and its
\* image.
Feature(batch, i) ==
    Sum([k \in 1..Len(batch.input_ids[i]) |->
            batch.input_ids[i][k] * batch.attention_mask[i][k]],
        Len(batch.input_ids[i]))
    + batch.pixel_values.images[i]

\* The scalar the abstract network reads of its weights.
WeightSum(weights) == Sum([k \in 1..Len(ParamOrder) |-> weights[ParamOrder[k]]],
                          Len(ParamOrder))

\* The position of task in TaskOrder.
TaskNo(task) == CHOOSE k \in DOMAIN TaskOrder : TaskOrder[k] = task

\* One unnormalised class score: an uninterpreted deterministic function of
\* the weights, the sample, the task head, the class and the dropout mask
\* (drop = 0 when dropout is inactive).
Score(weights, feature, task, c, drop) ==
    (WeightSum(weights) * (c + 1) + feature * (c + TaskNo(task)) + drop * (c + 2))
        % ScoreMod

\* nn.Dropout: active in training mode only, where it draws a random mask.
DropoutMasks(training) == IF training THEN {0, 1} ELSE {0}

\* MultimodalModel.forward on a collated batch: per task a score tensor,
\* [shape, data], of shape <<>> where a layer rejects its input's shape.
Forward(weights, batch, drop) ==
    LET text_out  == FirstToken(TextModelShape(batch.input_ids))
        image_out == FirstToken(ImageModelShape(batch.pixel_values.shape))
        fused     == Linear(fusion, Cat(text_out, image_out))
    IN  [task \in DOMAIN classifier |->
            LET shape == Linear(classifier[task], fused)
            IN  IF shape = <<>> THEN [shape |-> <<>>, data |-> <<>>]
                ELSE [shape |-> shape,
                      data  |-> [i \in 1..shape[1] |->
                                   LET feature == Feature(batch, i)
                                   IN  [c \in 1..shape[2] |->
                                          Score(weights, feature, task, c - 1, drop)]]]]

\* The 0-based position of the (first) minimum.
ArgMin(scores) ==
    (CHOOSE c \in DOMAIN scores :
        /\ \A d \in DOMAIN scores : scores[d] >= scores[c]
        /\ \A d \in 1..(c - 1) : scores[d] > scores[c]) - 1

\* torch.argmax(row): the 0-based position of the (first) maximum.
ArgMax(scores) ==
    (CHOOSE c \in DOMAIN scores :
        /\ \A d \in DOMAIN scores : scores[d] <= scores[c]
        /\ \A d \in 1..(c - 1) : scores[d] < scores[c]) - 1

\* nn.CrossEntropyLoss()(scores, labels): defined when there is one label per
\* row of scores and every label is a class of the head; abstracted to the
\* summed margin of the labelled class.  -1 stands for the error raised
\* otherwise.
CrossEntropy(out, labels) ==
    IF \/ out.shape = <<>>
       \/ out.shape[1] # Len(labels)
       \/ \E i \in DOMAIN labels : labels[i] \notin 0..(out.shape[2] - 1)
    THEN -1
    ELSE Sum([i \in 1..Len(labels) |->
                 out.data[i][ArgMax(out.data[i]) + 1] - out.data[i][labels[i] + 1]],
             Len(labels))

\* ------------------------------------------------------------------------
\* train_test_split
\* ------------------------------------------------------------------------

\* test_size=0.2, as the fraction test_size_num / test_size_den.
test_size_num == 1

test_size_den == 5

\* random_state=42
random_state == 42

\* A pseudo-random generator stands for numpy's RandomState: a state, a
\* seeding function and a step function.  Only determinism is relied on.
RngSeed(seed) == (seed * 7 + 1) % 65537

RngNext(state) == (state * 75 + 74) % 65537

\* check_random_state(None): the generator is numpy's global one, whose
\* state is whatever earlier draws left behind.
RngOfGlobal(seed, global) == [state |-> global, is_global |-> TRUE]

\* check_random_state(seed) for an int seed: a fresh generator seeded with it.
CheckRandomState(seed, global) == [state |-> RngSeed(seed), is_global |-> FALSE]

\* rng.permutation(n): Fisher-Yates over arange(n), i from n-1 down to 1, j
\* drawn in 0..i.  Returns the 0-based permutation and the generator's state.
Permutation(n, state) ==
    LET Swap(x, a, b) == [x EXCEPT ![a] = x[b], ![b] = x[a]]
        \* F[k]: after the steps i = n-1, ..., n-k
        F[k \in 0..(IF n = 0 THEN 0 ELSE n - 1)] ==
            IF k = 0 THEN [x |-> [i \in 1..n |-> i - 1], state |-> state]
            ELSE LET prev == F[k - 1]
                     i    == n - k
                     st   == RngNext(prev.state)
                     j    == st % (i + 1)
                 IN  [x |-> Swap(prev.x, i + 1, j + 1), state |-> st]
    IN  F[IF n = 0 THEN 0 ELSE n - 1]

\* _validate_shuffle_split: n_test = ceil(test_size * n), n_train = n - n_test.
NTest(n) == (n * test_size_num + test_size_den - 1) \div test_size_den

NTrain(n) == n - NTest(n)

\* ShuffleSplit._iter_indices: ind_test = permutation[:n_test],
\* ind_train = permutation[n_test:(n_test + n_train)].
TestPositions(perm, n) == SubSeq(perm, 1, NTest(n))

TrainPositions(perm, n) == SubSeq(perm, NTest(n) + 1, NTest(n) + NTrain(n))

\* DataFrame.iloc[positions]: the entries at the 0-based positions, each with
\* its index label.
Take(df, positions) == [k \in 1..Len(positions) |-> df[positions[k] + 1]]

\* train_test_split(df, test_size=0.2, random_state=42): the two partitions,
\* or ValueError when the train partition would be empty; and the state in
\* which it leaves numpy's global generator.
TrainTestSplit(df, global) ==
    LET n    == Len(df)
        rng  == CheckRandomState(random_state, global)
        p    == Permutation(n, rng.state)
    IN  IF n = 0 \/ NTrain(n) = 0
        THEN [raised |-> "ValueError", np_random |-> global]
        ELSE [raised    |-> None,
              train     |-> Take(df, TrainPositions(p.x, n)),
              test      |-> Take(df, TestPositions(p.x, n)),
              np_random |-> IF rng.is_global THEN p.state ELSE global]

\* ------------------------------------------------------------------------
\* Optimizer, checkpoint, metrics
\* ------------------------------------------------------------------------

\* The gradient buffers: the accumulated value and, as bookkeeping, the
\* serial numbers of the batches whose backward pass contributed to it.
NoGrad == [val |-> 0, of |-> {}]

\* optimizer.zero_grad() left out: the buffers keep what they hold.
ZeroGradKeep(grad) == grad

\* optimizer.zero_grad()
ZeroGrad(grad) == NoGrad

\* The gradient of a scalar loss (abstracted to a residue).
LossGrad(loss) == loss.val % WMod

\* loss.backward(): gradients are accumulated into the buffers.
Backward(grad, loss, serial) ==
    [val |-> (grad.val + LossGrad(loss)) % WMod, of |-> grad.of \cup {serial}]

\* optimizer.step(): every parameter group moves by its gradient and by the
\* weight decay of AdamW (so it moves even where the gradient is zero).
OptimizerStep(weights, grad) ==
    [p \in Params |-> (weights[p] + grad.val + 1) % WMod]

\* A state_dict that leaves the classification heads out.
StateDictNoHeads(weights) ==
    [k \in 1..(Len(ParamOrder) - 1) |-> <<ParamOrder[k], weights[ParamOrder[k]]>>]

\* model.state_dict(): the ordered (name, value) pairs.
StateDict(weights) ==
    [k \in 1..Len(ParamOrder) |-> <<ParamOrder[k], weights[ParamOrder[k]]>>]

\* model.load_state_dict(sd), strict: every parameter is set from the entry
\* of its name; a missing or unexpected key raises.
LoadStateDict(weights, sd) ==
    IF {sd[k][1] : k \in DOMAIN sd} # Params
    THEN [raised |-> "RuntimeError", weights |-> weights]
    ELSE [raised  |-> None,
          weights |-> [p \in Params |-> sd[CHOOSE k \in DOMAIN sd : sd[k][1] = p][2]]]

\* accuracy_score(y_true, y_pred): the fraction <<matches, n>>.
AccuracyScore(y_true, y_pred) ==
    <<Cardinality({i \in DOMAIN y_true : y_true[i] = y_pred[i]}), Len(y_true)>>

\* f1_score(y_true, y_pred, average="macro"): the unweighted mean, over the
\* classes present in either list, of 2tp / (2tp + fp + fn), as an exact
\* fraction <<numerator, denominator>>.
F1Macro(y_true, y_pred) ==
    LET present == Range(y_true) \cup Range(y_pred)
        top     == 4
        tp(c)   == Cardinality({i \in DOMAIN y_true : y_true[i] = c /\ y_pred[i] = c})
        fp(c)   == Cardinality({i \in DOMAIN y_true : y_true[i] # c /\ y_pred[i] = c})
        fn(c)   == Cardinality({i \in DOMAIN y_true : y_true[i] = c /\ y_pred[i] # c})
        den(c)  == IF c \in present THEN 2 * tp(c) + fp(c) + fn(c) ELSE 1
        D[c \in -1..top] == IF c = -1 THEN 1 ELSE D[c - 1] * den(c)
        N[c \in -1..top] ==
            IF c = -1 THEN 0
            ELSE N[c - 1] + (IF c \in present THEN 2 * tp(c) * (D[top] \div den(c)) ELSE 0)
    IN  <<N[top], D[top] * Cardinality(present)>>

\* extend that replaces the list by the new items.
ExtendReplace(list, items) == items

\* list.extend(items)
Extend(list, items) == list \o items

\* The metrics dict of evaluate_model.
Metrics(labels, preds) ==
    [t \in Tasks |-> [Accuracy |-> AccuracyScore(labels[t], preds[t]),
                      F1Score  |-> F1Macro(labels[t], preds[t])]]

\* ------------------------------------------------------------------------
\* Inputs
\* ------------------------------------------------------------------------

\* Rows of the label file of the notebook run.
MaxRows == 4

\* Rows of an evaluation split handed to evaluate_model on its own.
MaxEval == 3

\* The batch sizes of a loader handed to evaluate_model on its own.
MaxBatch == 2

\* batch_size=16 of the notebook's loaders, scaled down.
batch_size == 2

\* def train_model(model, train_loader, optimizer, criterion, epochs=2):
\* the notebook calls it without epochs.
epochs_default == 2

\* epochs ranges over 1..MaxEpochs when train_model is checked on its own.
MaxEpochs == 2

\* Rows of the training split when train_model is checked on its own.
MaxTrainRows == 3

\* Executions of the splitting cell, and rows of the table it splits, when
\* the cell is checked on its own.
MaxSplitRuns == 2

MaxSplitRows == 8

\* States of numpy's global generator when the notebook starts.
MaxEntropy == 1

MkRow(text, image, s, h, sa, o, m) ==
    [text_corrected |-> text, image_name |-> image, overall_sentiment |-> s,
     humour |-> h, sarcasm |-> sa, offensive |-> o, motivational |-> m]

\* A value of a label column that is outside every vocabulary (a missing
\* value, a misspelling).
Unknown == "nan"

\* One caption per length.
TextOfLen(n) == [i \in 1..n |-> ((i - 1) % NumWords) + 1]

Texts == {TextOfLen(n) : n \in 0..(text_max_length + ExtraWords)}

\* Every combination of label values, each column over its vocabulary and
\* the unknown value.
AllRows ==
    {MkRow(text, 1, s, h, sa, o, m) :
        text \in Texts,
        s  \in Range(label_maps.sentiment) \cup {Unknown},
        h  \in Range(label_maps.humor) \cup {Unknown},
        sa \in Range(label_maps.sarcasm) \cup {Unknown},
        o  \in Range(label_maps.offensive) \cup {Unknown},
        m  \in Range(label_maps.motivational) \cup {Unknown}}

RowA == MkRow(<<1>>, 1, "positive", "funny", "general", "not_offensive", "motivational")

RowB == MkRow(<<2, 1>>, 2, "negative", "not_funny", "not_sarcastic", "slight",
              "not_motivational")

RowC == MkRow(<<>>, 3, "neutral", "hilarious", "very_twisted", "hateful_offensive",
              "motivational")

RowD == MkRow(<<1, 2, 1, 2, 1>>, 4, "very_positive", "very_funny", "twisted_meaning",
              "very_offensive", "not_motivational")

RowBad == [RowB EXCEPT !.overall_sentiment = Unknown]

\* Label files of the notebook run: well-formed rows, with at most one
\* malformed row at any place.
BaseTable(n) == [i \in 1..n |-> IF i % 3 = 1 THEN RowA ELSE IF i % 3 = 2 THEN RowB ELSE RowC]

TablesUpTo(max) ==
    UNION {{BaseTable(n)} \cup {[BaseTable(n) EXCEPT ![k] = RowBad] : k \in 1..n}
              : n \in 1..max}

Tables == TablesUpTo(MaxRows)

\* Evaluation splits for evaluate_model on its own: up to MaxEval of these
\* rows, each any number of times.  The loader delivers them in every order.
EvalRows == <<RowA, RowB, RowD, RowBad>>

EvalTables ==
    UNION {{[i \in 1..m |-> EvalRows[f[i]]] :
               f \in {g \in [1..m -> DOMAIN EvalRows] :
                         \A i \in 1..(m - 1) : g[i] <= g[i + 1]}}
              : m \in 1..MaxEval}

\* ------------------------------------------------------------------------
\* State
\* ------------------------------------------------------------------------

VARIABLES
    cell,        \* the notebook cell to run next; "raised" after an exception
    raised,      \* the exception that stopped the run: its type, the call that
                 \* raised it and the cell that was running
    pc,          \* the position inside train_model or evaluate_model
    csv,         \* the rows of labels.csv
    np_random,   \* the state of numpy's global generator
    labels_df,   \* labels_df of dataset, train_dataset and test_dataset
    train_df,    \* cell 10
    val_df,      \* cell 10
    splits,      \* history: the partitions of every execution of cell 10
    loaders,     \* train_loader and test_loader
    weights,     \* the parameters of model
    training,    \* model.training
    grad,        \* the .grad buffers of the parameters
    optimizer,   \* the optimizer's state (its step count)
    epochs,      \* argument of train_model
    epoch,       \* loop variable of train_model
    remaining,   \* positions the loader's sampler has not delivered in this pass
    seen,        \* history: how often this pass delivered each position
    batch,       \* the current batch
    outputs,     \* the result of the last forward pass
    loss,        \* the loss of the current batch
    last_step,   \* history: the weights left by the last optimizer step
    file,        \* multimodal_sentiment_model.pth
    saves,       \* history: the number of torch.save calls
    all_preds,   \* evaluate_model
    all_labels,  \* evaluate_model
    metrics,     \* the result of evaluate_model
    delivered,   \* history: the positions the loader has handed to evaluate_model,
                 \* in the order of delivery
    idx,         \* argument of a direct __getitem__ call
    sample       \* its result

vars == <<cell, raised, pc, csv, np_random, labels_df, train_df, val_df, splits, loaders,
          weights, training, grad, optimizer, epochs, epoch, remaining, seen, batch,
          outputs, loss, last_step, file, saves, all_preds, all_labels, metrics,
          delivered, idx, sample>>

dataVars == <<csv, np_random, labels_df, train_df, val_df, splits, loaders>>

modelVars == <<weights, training, grad, optimizer, last_step>>

loopVars == <<epochs, epoch, remaining, seen, batch, outputs, loss>>

evalVars == <<all_preds, all_labels, metrics, delivered>>

fileVars == <<file, saves>>

itemVars == <<idx, sample>>

\* The value of a variable that holds no object yet.
Absent == [absent |-> TRUE]

NoException == [type |-> None, origin |-> None, cell |-> None]

\* No loss computed yet.
NoLoss == [val |-> 0, terms |-> {}]

\* The pretrained encoders and the freshly initialised fusion layer and heads.
InitialWeights(h) ==
    [p \in Params |-> IF p = "classifier" THEN h ELSE 0]

\* The state after cells 1-9: dataset is built from the label file and
\* dataset_df is its labels_df.
Init ==
    /\ cell = "split"
    /\ raised = NoException
    /\ pc = "idle"
    /\ csv \in Tables
    /\ np_random = 0
    /\ labels_df = [dataset |-> ReadCsv(csv), train_dataset |-> <<>>, test_dataset |-> <<>>]
    /\ train_df = <<>>
    /\ val_df = <<>>
    /\ splits = <<>>
    /\ loaders = Absent
    /\ weights = Absent
    /\ training = TRUE
    /\ grad = NoGrad
    /\ optimizer = Absent
    /\ epochs = epochs_default
    /\ epoch = 0
    /\ remaining = {}
    /\ seen = <<>>
    /\ batch = Absent
    /\ outputs = Absent
    /\ loss = NoLoss
    /\ last_step = Absent
    /\ file = <<>>
    /\ saves = 0
    /\ all_preds = Absent
    /\ all_labels = Absent
    /\ metrics = Absent
    /\ delivered = <<>>
    /\ idx = 0
    /\ sample = Absent


\* ------------------------------------------------------------------------
\* Cells 10-15: split, datasets, loaders, model
\* ------------------------------------------------------------------------

\* An exception propagates out of the running cell: the run stops.
Raise(type, origin) ==
    /\ cell' = "raised"
    /\ raised' = [type |-> type, origin |-> origin, cell |-> cell]
    /\ pc' = "idle"

\* train_df, val_df = train_test_split(dataset_df, test_size=0.2,
\* random_state=42)
RunSplit ==
    /\ LET r == TrainTestSplit(labels_df.dataset, np_random)
       IN  IF r.raised # None
           THEN /\ Raise(r.raised, "train_test_split")
                /\ UNCHANGED <<train_df, val_df, splits, np_random>>
           ELSE /\ train_df' = r.train
                /\ val_df' = r.test
                /\ np_random' = r.np_random
                /\ splits' = Append(splits, <<r.train, r.test>>)
                /\ cell' = "datasets"
                /\ UNCHANGED <<raised, pc>>
    /\ UNCHANGED <<csv, labels_df, loaders>>
    /\ UNCHANGED <<modelVars, loopVars, evalVars, fileVars, itemVars>>

\* Cell 10
SplitCell ==
    /\ cell = "split"
    /\ RunSplit

\* Cell 10 executed again before cell 11 runs.
SplitCellAgain ==
    /\ cell = "datasets"
    /\ Len(splits) < MaxSplitRuns
    /\ RunSplit

\* Cell 11: both datasets are built from the label file; then their labels_df
\* is replaced by the partitions.
DatasetsCell ==
    /\ cell = "datasets"
    /\ labels_df' = [[labels_df EXCEPT !.train_dataset = ReadCsv(csv),
                                       !.test_dataset = ReadCsv(csv)]
                        EXCEPT !.train_dataset = train_df, !.test_dataset = val_df]
    /\ cell' = "loaders"
    /\ UNCHANGED <<pc, raised, csv, np_random, train_df, val_df, splits, loaders>>
    /\ UNCHANGED <<modelVars, loopVars, evalVars, fileVars, itemVars>>

\* DataLoader(dataset, batch_size=..., shuffle=True)
DataLoader(dataset, size) == [dataset |-> dataset, batch_size |-> size, shuffle |-> TRUE]

\* Cell 12
LoadersCell ==
    /\ cell = "loaders"
    /\ loaders' = [train |-> DataLoader("train_dataset", batch_size),
                   test  |-> DataLoader("test_dataset", batch_size)]
    /\ cell' = "model"
    /\ UNCHANGED <<pc, raised, csv, np_random, labels_df, train_df, val_df, splits>>
    /\ UNCHANGED <<modelVars, loopVars, evalVars, fileVars, itemVars>>

\* Cells 14 and 15: the model (its new layers randomly initialised), the
\* optimizer and the criterion dict.
ModelCell ==
    /\ cell = "model"
    /\ \E h \in 0..(WMod - 1) : weights' = InitialWeights(h)
    /\ training' = TRUE
    /\ optimizer' = [step |-> 0]
    /\ grad' = NoGrad
    /\ cell' = "train"
    /\ UNCHANGED <<pc, raised, last_step>>
    /\ UNCHANGED <<dataVars, loopVars, evalVars, fileVars, itemVars>>

\* The keys of the criterion dict of cell 15.
criterion == Tasks

\* ------------------------------------------------------------------------
\* Iterating a loader
\* ------------------------------------------------------------------------

\* The positions a pass of the loader delivers: 0 .. len(dataset) - 1.
Positions(loader) == 0..(DatasetLen(labels_df[loader.dataset]) - 1)

\* The next batch of a shuffled pass: batch_size of the positions not yet
\* delivered (fewer in the last batch), in any order.
NextPositions(loader, rem) ==
    Orderings(rem, Min(loader.batch_size, Cardinality(rem)))

\* Rows read from the table the dataset was constructed from, as if its
\* labels_df had not been replaced.
ItemsOfFile(loader, q) == [i \in 1..Len(q) |-> GetItem(labels_df.dataset, q[i])]

\* dataset[i] for each position of the batch.
Items(loader, q) == [i \in 1..Len(q) |-> GetItem(labels_df[loader.dataset], q[i])]

\* The first sample of a batch whose __getitem__ raised.
FirstFailure(items) ==
    items[CHOOSE i \in DOMAIN items : ~items[i].ok /\ \A j \in 1..(i - 1) : items[j].ok]

\* The loader's next step: the pass is over, or a batch is collated, or a
\* sample raises.  next_pc is where the caller goes with a batch, end_pc
\* where it goes when the pass is over.
Fetch(loader, next_pc, end_pc) ==
    IF remaining = {}
    THEN /\ pc' = end_pc
         /\ UNCHANGED <<cell, raised, remaining, seen, batch>>
    ELSE \E q \in NextPositions(loader, remaining) :
            LET items == Items(loader, q)
            IN  IF \E i \in DOMAIN items : ~items[i].ok
                THEN /\ Raise(FirstFailure(items).raised, "__getitem__")
                     /\ UNCHANGED <<remaining, seen, batch>>
                ELSE /\ batch' = [positions |-> q, tensors |-> Collate(items)]
                     /\ remaining' = remaining \ Range(q)
                     /\ seen' = [i \in DOMAIN seen |->
                                    seen[i] + Cardinality({k \in DOMAIN q : q[k] = i})]
                     /\ pc' = next_pc
                     /\ UNCHANGED <<cell, raised>>

\* iter(loader): a new pass.
StartPass(loader) ==
    /\ remaining' = Positions(loader)
    /\ seen' = [i \in Positions(loader) |-> 0]

\* ------------------------------------------------------------------------
\* train_model
\* ------------------------------------------------------------------------

\* range(epochs - 1): one pass short.
RangeHasNextShort(i, n) == i + 1 < n

\* for i in range(n): whether the loop runs its body for i.
RangeHasNext(i, n) == i < n

\* Cell 16 calls train_model(model, train_loader, optimizer, criterion):
\* model.train().
TrainCall ==
    /\ cell = "train"
    /\ pc = "idle"
    /\ training' = TRUE
    /\ epoch' = 0
    /\ pc' = "epoch"
    /\ UNCHANGED <<cell, raised, weights, grad, optimizer, last_step>>
    /\ UNCHANGED <<epochs, remaining, seen, batch, outputs, loss>>
    /\ UNCHANGED <<dataVars, evalVars, fileVars, itemVars>>

\* for epoch in range(epochs): the next pass starts, or train_model returns
\* the model and cell 16 is done.
TrainEpoch ==
    /\ cell = "train"
    /\ pc = "epoch"
    /\ IF RangeHasNext(epoch, epochs)
       THEN /\ StartPass(loaders.train)
            /\ pc' = "fetch"
            /\ cell' = cell
       ELSE /\ pc' = "idle"
            /\ cell' = "save"
            /\ UNCHANGED <<remaining, seen>>
    /\ raised' = raised
    /\ UNCHANGED <<epochs, epoch, batch, outputs, loss>>
    /\ UNCHANGED <<dataVars, modelVars, evalVars, fileVars, itemVars>>

\* for batch in progress_bar
TrainFetch ==
    /\ cell = "train"
    /\ pc = "fetch"
    /\ Fetch(loaders.train, "zero_grad", "epoch_end")
    /\ UNCHANGED <<epochs, epoch, outputs, loss>>
    /\ UNCHANGED <<dataVars, modelVars, evalVars, fileVars, itemVars>>

\* optimizer.zero_grad()
TrainZeroGrad ==
    /\ cell = "train"
    /\ pc = "zero_grad"
    /\ grad' = ZeroGrad(grad)
    /\ pc' = "forward"
    /\ UNCHANGED <<cell, raised, weights, training, optimizer, last_step>>
    /\ UNCHANGED <<dataVars, loopVars, evalVars, fileVars, itemVars>>

\* A forward pass that ends with an optimizer step.
CallModelAndStep ==
    /\ \E drop \in DropoutMasks(training) :
          /\ outputs' = Forward(weights, batch.tensors, drop)
          /\ UNCHANGED <<cell, raised>>
    /\ weights' = OptimizerStep(weights, grad)
    /\ optimizer' = [step |-> optimizer.step + 1]
    /\ UNCHANGED <<grad, last_step>>

\* outputs = model(**inputs), or the shape error it raises.  The forward pass
\* reads the parameters and writes neither them, nor their gradient buffers,
\* nor the optimizer.
CallModel ==
    /\ \E drop \in DropoutMasks(training) :
          LET out == Forward(weights, batch.tensors, drop)
          IN  IF \E t \in DOMAIN out : out[t].shape = <<>>
              THEN /\ Raise("RuntimeError", "forward")
                   /\ outputs' = outputs
              ELSE /\ outputs' = out
                   /\ UNCHANGED <<cell, raised>>
    /\ UNCHANGED <<weights, grad, optimizer, last_step>>

TrainForward ==
    /\ cell = "train"
    /\ pc = "forward"
    /\ CallModel
    /\ (cell' = cell) => (pc' = "loss")
    /\ UNCHANGED <<training, epochs, epoch, remaining, seen, batch, loss>>
    /\ UNCHANGED <<dataVars, evalVars, fileVars, itemVars>>

\* sum(criterion[task](outputs[task], labels[task]) for task in outputs)
SumLoss(out, labels) ==
    LET terms == [k \in 1..Len(TaskOrder) |->
                     CrossEntropy(out[TaskOrder[k]], labels[TaskOrder[k]])]
    IN  IF \E k \in DOMAIN terms : terms[k] = -1
        THEN [val |-> -1, terms |-> {}]
        ELSE [val |-> Sum(terms, Len(terms)), terms |-> DOMAIN out]

TrainLoss ==
    /\ cell = "train"
    /\ pc = "loss"
    /\ LET l == SumLoss(outputs, batch.tensors.labels)
       IN  IF l.val = -1
           THEN /\ Raise("IndexError", "criterion")
                /\ loss' = loss
           ELSE /\ loss' = l
                /\ pc' = "backward"
                /\ UNCHANGED <<cell, raised>>
    /\ UNCHANGED <<epochs, epoch, remaining, seen, batch, outputs>>
    /\ UNCHANGED <<dataVars, modelVars, evalVars, fileVars, itemVars>>

\* loss.backward()
TrainBackward ==
    /\ cell = "train"
    /\ pc = "backward"
    /\ grad' = Backward(grad, loss, optimizer.step + 1)
    /\ pc' = "step"
    /\ UNCHANGED <<cell, raised, weights, training, optimizer, last_step>>
    /\ UNCHANGED <<dataVars, loopVars, evalVars, fileVars, itemVars>>

\* optimizer.step()
TrainStep ==
    /\ cell = "train"
    /\ pc = "step"
    /\ weights' = OptimizerStep(weights, grad)
    /\ optimizer' = [step |-> optimizer.step + 1]
    /\ last_step' = weights'
    /\ pc' = "fetch"
    /\ UNCHANGED <<cell, raised, training, grad>>
    /\ UNCHANGED <<dataVars, loopVars, evalVars, fileVars, itemVars>>

\* The end of a pass: the average loss is printed.
TrainEpochEnd ==
    /\ cell = "train"
    /\ pc = "epoch_end"
    /\ epoch' = epoch + 1
    /\ pc' = "epoch"
    /\ UNCHANGED <<cell, raised, epochs, remaining, seen, batch, outputs, loss>>
    /\ UNCHANGED <<dataVars, modelVars, evalVars, fileVars, itemVars>>

\* ------------------------------------------------------------------------
\* Cells 17 and 18: the checkpoint
\* ------------------------------------------------------------------------

\* torch.save(trained_model.state_dict(), path); trained_model is model.
SaveCell ==
    /\ cell = "save"
    /\ file' = StateDict(weights)
    /\ saves' = saves + 1
    /\ cell' = "load"
    /\ UNCHANGED <<pc, raised>>
    /\ UNCHANGED <<dataVars, modelVars, loopVars, evalVars, itemVars>>

\* model.load_state_dict(torch.load(path, map_location=device))
LoadCell ==
    /\ cell = "load"
    /\ LET r == LoadStateDict(weights, file)
       IN  IF r.raised # None
           THEN /\ Raise(r.raised, "load_state_dict")
                /\ weights' = weights
           ELSE /\ weights' = r.weights
                /\ cell' = "eval"
                /\ UNCHANGED <<raised, pc>>
    /\ UNCHANGED <<training, grad, optimizer, last_step>>
    /\ UNCHANGED <<dataVars, loopVars, evalVars, fileVars, itemVars>>

\* ------------------------------------------------------------------------
\* evaluate_model
\* ------------------------------------------------------------------------

\* model.eval(): training mode off.
SetEval(mode) == FALSE

\* Cell 19 calls evaluate_model(model, test_loader): model.eval(), empty
\* lists per task of criterion, and the loader's pass starts.
EvalCall ==
    /\ cell = "eval"
    /\ pc = "idle"
    /\ training' = SetEval(training)
    /\ all_preds' = [t \in criterion |-> <<>>]
    /\ all_labels' = [t \in criterion |-> <<>>]
    /\ StartPass(loaders.test)
    /\ delivered' = <<>>
    /\ pc' = "eval_fetch"
    /\ UNCHANGED <<cell, raised, weights, grad, optimizer, last_step, metrics>>
    /\ UNCHANGED <<epochs, epoch, batch, outputs, loss>>
    /\ UNCHANGED <<dataVars, fileVars, itemVars>>

\* for batch in tqdm(dataloader)
EvalFetch ==
    /\ cell = "eval"
    /\ pc = "eval_fetch"
    /\ Fetch(loaders.test, "eval_forward", "eval_metrics")
    /\ delivered' = IF pc' = "eval_forward" THEN delivered \o batch'.positions
                    ELSE delivered
    /\ UNCHANGED <<epochs, epoch, outputs, loss>>
    /\ UNCHANGED <<all_preds, all_labels, metrics>>
    /\ UNCHANGED <<dataVars, modelVars, fileVars, itemVars>>

\* outputs = model(**inputs)
EvalForward ==
    /\ cell = "eval"
    /\ pc = "eval_forward"
    /\ CallModel
    /\ (cell' = cell) => (pc' = "eval_extend")
    /\ UNCHANGED <<training, epochs, epoch, remaining, seen, batch, loss>>
    /\ UNCHANGED <<dataVars, evalVars, fileVars, itemVars>>

\* The predictions of a batch in reverse order.
PredsReversed(out) ==
    [t \in DOMAIN out |->
        [i \in 1..Len(out[t].data) |-> ArgMax(out[t].data[Len(out[t].data) + 1 - i])]]

\* preds = {task: torch.argmax(outputs[task], dim=1) for task in outputs}
Preds(out) ==
    [t \in DOMAIN out |-> [i \in 1..Len(out[t].data) |-> ArgMax(out[t].data[i])]]

\* for task in preds: the batch's predictions and labels are appended.
EvalExtend ==
    /\ cell = "eval"
    /\ pc = "eval_extend"
    /\ all_preds' = [t \in DOMAIN all_preds |-> Extend(all_preds[t], Preds(outputs)[t])]
    /\ all_labels' = [t \in DOMAIN all_labels |->
                         Extend(all_labels[t], batch.tensors.labels[t])]
    /\ pc' = "eval_fetch"
    /\ UNCHANGED <<cell, raised, metrics, delivered>>
    /\ UNCHANGED <<dataVars, modelVars, loopVars, fileVars, itemVars>>

\* The metrics per task of criterion; evaluate_model returns.
EvalMetrics ==
    /\ cell = "eval"
    /\ pc = "eval_metrics"
    /\ metrics' = Metrics(all_labels, all_preds)
    /\ cell' = "done"
    /\ pc' = "idle"
    /\ UNCHANGED <<raised, all_preds, all_labels, delivered>>
    /\ UNCHANGED <<dataVars, modelVars, loopVars, fileVars, itemVars>>

\* ------------------------------------------------------------------------
\* Specifications
\* ------------------------------------------------------------------------

Next ==
    \/ SplitCell
    \/ DatasetsCell
    \/ LoadersCell
    \/ ModelCell
    \/ TrainCall
    \/ TrainEpoch
    \/ TrainFetch
    \/ TrainZeroGrad
    \/ TrainForward
    \/ TrainLoss
    \/ TrainBackward
    \/ TrainStep
    \/ TrainEpochEnd
    \/ SaveCell
    \/ LoadCell
    \/ EvalCall
    \/ EvalFetch
    \/ EvalForward
    \/ EvalExtend
    \/ EvalMetrics

\* The notebook run from cell 10 on.
Spec == Init /\ [][Next]_vars

\* train_model on its own: any training split, any number of epochs, under
\* the scheduling of a sequential program: a step that can be taken is
\* eventually taken.
InitTrain ==
    /\ cell = "train"
    /\ raised = NoException
    /\ pc = "idle"
    /\ csv \in TablesUpTo(MaxTrainRows)
    /\ np_random = 0
    /\ labels_df = [dataset |-> ReadCsv(csv), train_dataset |-> ReadCsv(csv),
                    test_dataset |-> <<>>]
    /\ train_df = ReadCsv(csv)
    /\ val_df = <<>>
    /\ splits = <<>>
    /\ loaders = [train |-> DataLoader("train_dataset", batch_size),
                  test  |-> DataLoader("test_dataset", batch_size)]
    /\ weights = InitialWeights(0)
    /\ training = FALSE
    /\ grad = NoGrad
    /\ optimizer = [step |-> 0]
    /\ epochs \in 1..MaxEpochs
    /\ epoch = 0
    /\ remaining = {}
    /\ seen = <<>>
    /\ batch = Absent
    /\ outputs = Absent
    /\ loss = NoLoss
    /\ last_step = Absent
    /\ file = <<>>
    /\ saves = 0
    /\ all_preds = Absent
    /\ all_labels = Absent
    /\ metrics = Absent
    /\ delivered = <<>>
    /\ idx = 0
    /\ sample = Absent

NextTrain ==
    \/ TrainCall
    \/ TrainEpoch
    \/ TrainFetch
    \/ TrainZeroGrad
    \/ TrainForward
    \/ TrainLoss
    \/ TrainBackward
    \/ TrainStep
    \/ TrainEpochEnd

SpecTrain == InitTrain /\ [][NextTrain]_vars /\ WF_vars(NextTrain)

\* Cell 10 on its own: larger tables, the cell executed repeatedly, numpy's
\* global generator in any state.
InitSplit ==
    /\ cell = "split"
    /\ raised = NoException
    /\ pc = "idle"
    /\ csv \in TablesUpTo(MaxSplitRows)
    /\ np_random \in 0..MaxEntropy
    /\ labels_df = [dataset |-> ReadCsv(csv), train_dataset |-> <<>>, test_dataset |-> <<>>]
    /\ train_df = <<>>
    /\ val_df = <<>>
    /\ splits = <<>>
    /\ loaders = Absent
    /\ weights = Absent
    /\ training = TRUE
    /\ grad = NoGrad
    /\ optimizer = Absent
    /\ epochs = 0
    /\ epoch = 0
    /\ remaining = {}
    /\ seen = <<>>
    /\ batch = Absent
    /\ outputs = Absent
    /\ loss = NoLoss
    /\ last_step = Absent
    /\ file = <<>>
    /\ saves = 0
    /\ all_preds = Absent
    /\ all_labels = Absent
    /\ metrics = Absent
    /\ delivered = <<>>
    /\ idx = 0
    /\ sample = Absent

NextSplit ==
    \/ SplitCell
    \/ SplitCellAgain

SpecSplit == InitSplit /\ [][NextSplit]_vars

\* evaluate_model on its own: any evaluation split, any batch size of a
\* shuffling loader, any weights of a model left in training mode.
InitEval ==
    /\ cell = "eval"
    /\ raised = NoException
    /\ pc = "idle"
    /\ csv \in EvalTables
    /\ np_random = 0
    /\ labels_df = [dataset |-> ReadCsv(csv), train_dataset |-> <<>>,
                    test_dataset |-> ReadCsv(csv)]
    /\ train_df = <<>>
    /\ val_df = ReadCsv(csv)
    /\ splits = <<>>
    /\ \E b \in 1..MaxBatch :
          loaders = [train |-> DataLoader("train_dataset", b),
                     test  |-> DataLoader("test_dataset", b)]
    /\ \E h \in 0..(WMod - 1) : weights = InitialWeights(h)
    /\ training = TRUE
    /\ grad = NoGrad
    /\ optimizer = [step |-> 0]
    /\ epochs = 0
    /\ epoch = 0
    /\ remaining = {}
    /\ seen = <<>>
    /\ batch = Absent
    /\ outputs = Absent
    /\ loss = NoLoss
    /\ last_step = weights
    /\ file = StateDict(weights)
    /\ saves = 1
    /\ all_preds = Absent
    /\ all_labels = Absent
    /\ metrics = Absent
    /\ delivered = <<>>
    /\ idx = 0
    /\ sample = Absent

NextEval ==
    \/ EvalCall
    \/ EvalFetch
    \/ EvalForward
    \/ EvalExtend
    \/ EvalMetrics

SpecEval == InitEval /\ [][NextEval]_vars

\* dataset[idx] called directly on a one-row dataset.
GetItemCall ==
    /\ cell = "getitem"
    /\ sample' = GetItem(labels_df.dataset, idx)
    /\ cell' = "got"
    /\ UNCHANGED <<pc, raised, idx>>
    /\ UNCHANGED <<dataVars, modelVars, loopVars, evalVars, fileVars>>

\* __getitem__ on its own: any row.
InitDataset ==
    /\ cell = "getitem"
    /\ raised = NoException
    /\ pc = "idle"
    /\ csv \in {<<r>> : r \in AllRows}
    /\ np_random = 0
    /\ labels_df = [dataset |-> ReadCsv(csv), train_dataset |-> <<>>, test_dataset |-> <<>>]
    /\ train_df = <<>>
    /\ val_df = <<>>
    /\ splits = <<>>
    /\ loaders = Absent
    /\ weights = Absent
    /\ training = TRUE
    /\ grad = NoGrad
    /\ optimizer = Absent
    /\ epochs = 0
    /\ epoch = 0
    /\ remaining = {}
    /\ seen = <<>>
    /\ batch = Absent
    /\ outputs = Absent
    /\ loss = NoLoss
    /\ last_step = Absent
    /\ file = <<>>
    /\ saves = 0
    /\ all_preds = Absent
    /\ all_labels = Absent
    /\ metrics = Absent
    /\ delivered = <<>>
    /\ idx = 0
    /\ sample = Absent

NextDataset == GetItemCall

SpecDataset == InitDataset /\ [][NextDataset]_vars

\* ------------------------------------------------------------------------
\* Properties of MemeDataset.__getitem__ (under SpecDataset)
\* ------------------------------------------------------------------------

\* The row a direct __getitem__ call has read.
TheRow == labels_df.dataset[idx + 1].data

Returned == cell = "got" /\ sample.ok

\* C1: for each of the five tasks, __getitem__ on a row whose label for that
\* task is outside the task's vocabulary in label_maps raises a lookup
\* error and returns no sample.
C1_UnknownLabelRaises ==
    cell = "got" =>
        \A t \in Tasks :
            ~Contains(label_maps[t], TheRow[Column[t]]) => ~sample.ok

\* C2: for every returned sample and each of the five tasks, the vocabulary
\* entry at the stored class index is the row's label string.
C2_LabelRoundTrip ==
    Returned =>
        \A t \in Tasks :
            /\ sample.labels[t] + 1 \in DOMAIN label_maps[t]
            /\ label_maps[t][sample.labels[t] + 1] = TheRow[Column[t]]

\* C5: for every returned sample, whatever the length of the caption,
\* input_ids and attention_mask have exactly text_max_length entries: the
\* class token, the caption's tokens cut to text_max_length - 2, the
\* separator, then padding; the mask is 1 on the tokens and 0 on the padding.
\* The sequences are a function of the caption alone.
C5_FixedLengthTokens ==
    Returned =>
        LET text == TheRow.text_corrected
            kept == Min(Len(text), text_max_length - 2)
        IN  /\ Len(sample.input_ids) = text_max_length
            /\ Len(sample.attention_mask) = text_max_length
            /\ \A i \in 1..text_max_length :
                  /\ sample.input_ids[i] =
                        IF i = 1 THEN SpecialTokens.cls
                        ELSE IF i <= kept + 1 THEN WordId(text[i - 1])
                        ELSE IF i = kept + 2 THEN SpecialTokens.sep
                        ELSE SpecialTokens.pad
                  /\ sample.attention_mask[i] = IF i <= kept + 2 THEN 1 ELSE 0

\* A caption longer than the limit has been tokenized.
C5_Witness ==
    /\ Returned
    /\ Len(TheRow.text_corrected) + 2 > text_max_length

\* C7: for every returned sample and each task, the class index is in
\* 0 .. K-1, K the output width of the task's classification head.
C7_LabelsAreClassesOfHead ==
    Returned =>
        \A t \in Tasks : sample.labels[t] \in 0..(classifier[t].out_features - 1)

\* A sample whose labels are the last class of every vocabulary.
C7_Witness ==
    /\ Returned
    /\ \A t \in Tasks : TheRow[Column[t]] = label_maps[t][Len(label_maps[t])]
    /\ \A t \in Tasks : sample.labels[t] = classifier[t].out_features - 1

\* ------------------------------------------------------------------------
\* Properties of the split (under SpecSplit)
\* ------------------------------------------------------------------------

IndexLabels(df) == {df[i].index : i \in DOMAIN df}

\* C3: every execution of train_test_split at ratio 0.2 and seed 42 yields
\* two partitions such that every row of the full table is in exactly one of
\* them, and every execution on the same table yields the same two
\* partitions.
C3_SplitIsPartitionAndReproducible ==
    \A k \in DOMAIN splits :
        LET train == splits[k][1]
            test  == splits[k][2]
            full  == labels_df.dataset
        IN  /\ IndexLabels(train) \cap IndexLabels(test) = {}
            /\ IndexLabels(train) \cup IndexLabels(test) = IndexLabels(full)
            /\ Len(train) + Len(test) = Len(full)
            /\ \A i \in DOMAIN train : train[i] = full[train[i].index + 1]
            /\ \A i \in DOMAIN test : test[i] = full[test[i].index + 1]
            /\ splits[k] = splits[1]
            /\ (cell = "datasets" /\ k = Len(splits)) => <<train_df, val_df>> = splits[k]

\* The split has been executed twice on a table that gives both partitions
\* several rows.
C3_Witness ==
    /\ Len(splits) >= 2
    /\ Len(train_df) >= 2
    /\ Len(val_df) >= 2

\* ------------------------------------------------------------------------
\* Properties of evaluate_model on its own (under SpecEval)
\* ------------------------------------------------------------------------

\* The samples of a dataset in the order of its rows.
RefItems(df) == [i \in 1..Len(df) |-> GetItem(df, i - 1)]

\* The labels, and the arg-max predictions of a model in evaluation mode,
\* of the samples taken one at a time in the order of the rows.
RefLabels(df) ==
    [t \in Tasks |-> [i \in 1..Len(df) |-> RefItems(df)[i].labels[t]]]

RefPreds(df, w) ==
    [t \in Tasks |->
        [i \in 1..Len(df) |-> Preds(Forward(w, Collate(<<RefItems(df)[i]>>), 0))[t][1]]]

\* C4: the metrics evaluate_model returns are those of the split's samples
\* taken in the order of the rows, whatever the order in which the loader
\* delivered the batches and whatever its batch size.
C4_MetricsIndependentOfBatching ==
    cell = "done" =>
        metrics = Metrics(RefLabels(labels_df.test_dataset),
                          RefPreds(labels_df.test_dataset, weights))

\* evaluate_model has returned after several batches delivered in an order
\* other than that of the rows, with some predictions right and some wrong.
C4_Witness ==
    /\ cell = "done"
    /\ Len(labels_df.test_dataset) >= 3
    /\ loaders.test.batch_size = 2
    /\ all_labels["sentiment"] # RefLabels(labels_df.test_dataset)["sentiment"]
    /\ metrics["sentiment"].Accuracy[1] \notin {0, Len(labels_df.test_dataset)}

\* The scores per task that a model in evaluation mode with weights w gives
\* the sample at position p of df, taken on its own.
ScoresOf(df, w, p) ==
    LET out == Forward(w, Collate(<<GetItem(df, p)>>), 0)
    IN  [t \in Tasks |-> out[t].data[1]]

\* C11: when evaluate_model returns from a split of M samples, for each of
\* the five tasks the prediction list and the label list hold M entries
\* each, the loader has delivered every position of the split exactly once,
\* the i-th prediction is a class of maximal score among that task's scores
\* of the i-th delivered sample, and the metrics of a task are the accuracy
\* and macro-F1 of that task's two lists.
C11_OneEntryPerSample ==
    cell = "done" =>
        LET df == labels_df.test_dataset
            M  == Len(df)
        IN  /\ DOMAIN all_preds = Tasks
            /\ DOMAIN all_labels = Tasks
            /\ DOMAIN metrics = Tasks
            /\ Len(delivered) = M
            /\ Range(delivered) = 0..(M - 1)
            /\ \A t \in Tasks :
                  /\ Len(all_preds[t]) = M
                  /\ Len(all_labels[t]) = M
            /\ \A i \in 1..M :
                  LET scores == ScoresOf(df, weights, delivered[i])
                  IN  \A t \in Tasks :
                        /\ all_preds[t][i] + 1 \in DOMAIN scores[t]
                        /\ \A d \in DOMAIN scores[t] :
                              scores[t][d] <= scores[t][all_preds[t][i] + 1]
            /\ \A t \in Tasks :
                  metrics[t] = [Accuracy |-> AccuracyScore(all_labels[t], all_preds[t]),
                                F1Score  |-> F1Macro(all_labels[t], all_preds[t])]

\* evaluate_model has returned from a split of three samples delivered in two
\* batches, whose sentiment predictions are not all the same class.
C11_Witness ==
    /\ cell = "done"
    /\ Len(labels_df.test_dataset) = 3
    /\ loaders.test.batch_size = 2
    /\ Len(all_preds["sentiment"]) = 3
    /\ \E i, j \in 1..3 : all_preds["sentiment"][i] # all_preds["sentiment"][j]

\* A batch of evaluate_model is in hand.
EvalBatchInHand == cell = "eval" /\ pc \in {"eval_forward", "eval_extend"}

\* evaluate_model has created its lists.
Accumulating == cell = "done" \/ (cell = "eval" /\ pc # "idle")

\* The number of delivered samples whose batch has been appended.
Appended ==
    IF EvalBatchInHand THEN Len(delivered) - Len(batch.positions) ELSE Len(delivered)

\* C13: at every point of evaluate_model, for every task the prediction list
\* and the label list have the same length, that of the samples of the
\* batches appended so far, and for every position i the i-th prediction
\* and the i-th label are those of the i-th sample the loader delivered:
\* for every delivery order and batch size, a final partial batch included.
C13_PredsAlignedWithLabels ==
    Accumulating =>
        /\ \A t \in Tasks :
              /\ Len(all_preds[t]) = Appended
              /\ Len(all_labels[t]) = Appended
        /\ \A i \in 1..Appended :
              LET item   == GetItem(labels_df.test_dataset, delivered[i])
                  scores == ScoresOf(labels_df.test_dataset, weights, delivered[i])
              IN  \A t \in Tasks :
                    /\ all_labels[t][i] = item.labels[t]
                    /\ all_preds[t][i] = ArgMax(scores[t])

\* evaluate_model has appended a full batch whose two samples differ in their
\* sentiment prediction and in their sentiment label, and then a partial one.
C13_Witness ==
    /\ cell = "eval"
    /\ pc = "eval_fetch"
    /\ loaders.test.batch_size = 2
    /\ Len(delivered) = 3
    /\ Len(all_preds["sentiment"]) = 3
    /\ all_preds["sentiment"][1] # all_preds["sentiment"][2]
    /\ all_labels["sentiment"][1] # all_labels["sentiment"][2]

\* C14: no step of evaluate_model changes the model's weights, the gradient
\* buffers or the optimizer's state (it takes no backward pass and no
\* optimizer step), so the weights when it returns are those it was called
\* with, for every evaluation split, batch size and delivery order.
C14_EvalLeavesModelUnchanged ==
    [][cell = "eval" =>
          /\ weights' = weights
          /\ grad' = grad
          /\ optimizer' = optimizer]_vars

\* evaluate_model has returned after forward passes on several batches, with
\* the weights it was called with.
C14_Witness ==
    /\ cell = "done"
    /\ Len(delivered) >= 2
    /\ loaders.test.batch_size = 1
    /\ weights = last_step
    /\ \E p \in Params : weights[p] # 0
    /\ optimizer.step = 0
    /\ grad = NoGrad

\* ------------------------------------------------------------------------
\* Properties of the notebook run and of train_model
\* ------------------------------------------------------------------------

\* outputs holds the scores of the current batch.
FreshOutputs ==
    \/ cell = "train" /\ pc \in {"loss", "backward", "step"}
    \/ cell = "eval" /\ pc = "eval_extend"

\* C6: for a batch of N >= 1 samples, forward returns (raising no shape
\* error) one score tensor for each of exactly the five tasks, of shape
\* N x 5 for sentiment, N x 4 for humor, sarcasm and offensive, N x 2 for
\* motivational.
C6_ForwardShapes ==
    /\ raised.origin # "forward"
    /\ FreshOutputs =>
          LET N == Len(batch.positions)
              K == [sentiment |-> 5, humor |-> 4, sarcasm |-> 4, offensive |-> 4,
                    motivational |-> 2]
          IN  /\ N >= 1
              /\ DOMAIN outputs = Tasks
              /\ \A t \in Tasks :
                    /\ outputs[t].shape = <<N, K[t]>>
                    /\ Len(outputs[t].data) = N
                    /\ \A i \in 1..N : Len(outputs[t].data[i]) = K[t]

\* The forward pass has run on a full batch of several samples.
C6_Witness ==
    /\ FreshOutputs
    /\ Len(batch.positions) = batch_size
    /\ batch_size >= 2

\* The number of batches of one pass over the training split.
TrainBatches == LoaderLen(Len(labels_df.train_dataset), loaders.train.batch_size)

\* The batches the current pass has delivered so far.
DeliveredBatches ==
    LoaderLen(Cardinality(DOMAIN seen \ remaining), loaders.train.batch_size)

\* C8: in train_model every batch goes through zero_grad, forward, the sum
\* of the five cross-entropy losses, backward and one optimizer step, in this
\* order: the gradient buffers are empty from zero_grad until backward, the
\* loss is the sum over all five tasks of the current batch's outputs, the
\* step uses the gradient of the current batch only, and the optimizer has
\* stepped once for every batch already processed.
C8_BatchStepOrder ==
    cell = "train" /\ pc # "idle" =>
        /\ pc \in {"forward", "loss", "backward"} => grad = NoGrad
        /\ pc \in {"loss", "backward", "step"} =>
              \E drop \in {0, 1} : outputs = Forward(weights, batch.tensors, drop)
        /\ pc \in {"backward", "step"} =>
              /\ loss.terms = Tasks
              /\ loss.val = Sum([k \in 1..Len(TaskOrder) |->
                                    CrossEntropy(outputs[TaskOrder[k]],
                                                 batch.tensors.labels[TaskOrder[k]])],
                                Len(TaskOrder))
        /\ pc = "step" =>
              /\ grad.of = {optimizer.step + 1}
              /\ grad.val = LossGrad(loss)
        /\ pc = "epoch" => optimizer.step = epoch * TrainBatches
        /\ pc \in {"fetch", "epoch_end"} =>
              optimizer.step = epoch * TrainBatches + DeliveredBatches
        /\ pc \in {"zero_grad", "forward", "loss", "backward", "step"} =>
              optimizer.step = epoch * TrainBatches + DeliveredBatches - 1

\* A batch other than the first is about to take its optimizer step.
C8_Witness ==
    /\ cell = "train"
    /\ pc = "step"
    /\ optimizer.step >= 1
    /\ grad.of = {optimizer.step + 1}

\* train_model has returned.
TrainReturned ==
    \/ cell \in {"save", "load", "eval", "done"}
    \/ cell = "raised" /\ raised.cell \in {"load", "eval"}

\* An exception has left train_model.
TrainAborted == cell = "raised" /\ raised.cell = "train"

\* The loader can deliver every batch: __getitem__ encodes every row of the
\* training split.
Encodable ==
    \A i \in DOMAIN labels_df.train_dataset :
        FirstRaised(labels_df.train_dataset[i].data) = None

C9_Counts ==
    /\ TrainReturned =>
          /\ epoch = epochs
          /\ optimizer.step = epochs * TrainBatches
    /\ (cell = "train" /\ pc = "epoch_end") =>
          /\ remaining = {}
          /\ DOMAIN seen = 0..(Len(labels_df.train_dataset) - 1)
          /\ \A i \in DOMAIN seen : seen[i] = 1
          /\ optimizer.step = (epoch + 1) * TrainBatches
    /\ (cell = "train" /\ pc # "idle") =>
          /\ epoch <= epochs
          /\ pc # "epoch" => epoch < epochs
          /\ \A i \in DOMAIN seen : seen[i] <= 1
    /\ TrainAborted =>
          /\ raised.origin = "__getitem__"
          /\ ~Encodable

C10_SavedOnceAfterTraining ==
    /\ saves <= 1
    /\ cell \in {"split", "datasets", "loaders", "model", "train", "save"} =>
          saves = 0 /\ file = <<>>
    /\ cell \in {"load", "eval", "done"} => saves = 1
    /\ saves = 1 =>
          /\ epoch = epochs
          /\ optimizer.step = epochs * TrainBatches
          /\ Len(file) = Len(ParamOrder)
          /\ \A k \in DOMAIN file : file[k] = <<ParamOrder[k], last_step[ParamOrder[k]]>>
    /\ cell \in {"eval", "done"} => weights = last_step

\* evaluate_model is running on reloaded weights that training has changed.
C10_Witness ==
    /\ cell = "eval"
    /\ pc = "eval_fetch"
    /\ saves = 1
    /\ optimizer.step = 4
    /\ weights = last_step
    /\ \E p \in Params : weights[p] # 0

\* A batch of train_model is in hand.
TrainBatchInHand ==
    cell = "train" /\ pc \in {"zero_grad", "forward", "loss", "backward", "step"}

\* The batch is made of the rows of df at the batch's positions, and of no
\* row of other.
BatchIsOf(df, other) ==
    /\ \A k \in DOMAIN batch.positions :
          /\ batch.positions[k] + 1 \in DOMAIN df
          /\ df[batch.positions[k] + 1].index \notin IndexLabels(other)
    /\ batch.tensors =
          Collate([k \in DOMAIN batch.positions |-> GetItem(df, batch.positions[k])])

\* C12: once cell 11 has replaced labels_df of the two datasets, train_dataset
\* ranges over exactly the rows of train_df and test_dataset over exactly the
\* rows of val_df (their lengths and the rows __getitem__ reads), every batch
\* of train_model is made of rows of train_df and of no row of val_df, and
\* every batch of evaluate_model of rows of val_df and of no row of train_df.
C12_SplitsStayApart ==
    cell \in {"loaders", "model", "train", "save", "load", "eval", "done"} =>
        /\ labels_df.train_dataset = train_df
        /\ labels_df.test_dataset = val_df
        /\ DatasetLen(labels_df.train_dataset) = Len(train_df)
        /\ DatasetLen(labels_df.test_dataset) = Len(val_df)
        /\ IndexLabels(train_df) \cap IndexLabels(val_df) = {}
        /\ cell \notin {"loaders", "model"} =>
              /\ loaders.train.dataset = "train_dataset"
              /\ loaders.test.dataset = "test_dataset"
        /\ (cell = "train" /\ pc # "idle") =>
              remaining \subseteq 0..(Len(train_df) - 1)
        /\ (cell = "eval" /\ pc # "idle") =>
              remaining \subseteq 0..(Len(val_df) - 1)
        /\ TrainBatchInHand => BatchIsOf(train_df, val_df)
        /\ EvalBatchInHand => BatchIsOf(val_df, train_df)

\* evaluate_model holds a batch of the validation partition after train_model
\* has stepped on batches of a training partition that the split has
\* shuffled.
C12_Witness ==
    /\ EvalBatchInHand
    /\ optimizer.step >= 2
    /\ Len(train_df) >= 2
    /\ \E i \in DOMAIN train_df : train_df[i].index # i - 1
    /\ val_df[batch.positions[1] + 1].index # batch.positions[1]

====
